---- MODULE Spec2Model ----
(***************************************************************************)
(* State-machine model of the bios2net data pipeline:                      *)
(*   src/fold_dataset.py     class PFRDataset                              *)
(*   src/train_bios2net.py   the module-level omit_parameters_ranges check *)
(*                                                                         *)
(* Abstractions (values that the claims do not depend on are dropped):     *)
(*  - a class directory name "<letter>.<number>" is the pair               *)
(*    <<rank of the letter, number>> ("a.2" = <<1, 2>>, "b.1" = <<2, 1>>); *)
(*  - a numpy point array is [rows, cols, normalized]: rows lists, for     *)
(*    each row of the array, the row of the sample file it was taken from, *)
(*    cols lists the identity of each column, normalized tells whether the *)
(*    first three columns were overwritten by pc_normalize;                *)
(*  - floating point class weights are exact rationals <<num, den>>;       *)
(*  - every sample file has RawChannels columns;                           *)
(*  - the root path has two components, so that i.split('/')[2] is the     *)
(*    class directory of a globbed file;                                   *)
(*  - the random draws of numpy are nondeterministic choices;              *)
(*  - concurrent callers of _get_item are threads that can be switched     *)
(*    between its membership test, its size check and its insertion.       *)
(***************************************************************************)
EXTENDS Integers, Sequences, FiniteSets, TLC

\* ------------------------------------------------------------- bounds
MaxSamples == 3      \* most sample files of a split (iteration scenarios)
MaxK == 2            \* npoints; raw point counts range over 0..MaxK+1
MaxCount == 3        \* most sample files per class (class-weight scenarios)
RawChannels == 9     \* columns of every stored sample file

VARIABLES
    fs,             \* the dataset root: [listdir, glob]
    args,           \* the arguments given to PFRDataset(...)
    phase,          \* "args" | "checked" | "rejected" | "constructed"
    classes_names,  \* self.classes_names
    classes,        \* self.classes
    datapath,       \* self.datapath
    weights,        \* self.weights
    shuffle,        \* self.shuffle
    cache,          \* self.cache
    idxs,           \* self.idxs
    num_batches,    \* self.num_batches
    batch_idx,      \* self.batch_idx
    served,         \* the sample indices of each batch returned since reset()
    ret,            \* outcome of the last call
    callers         \* the position of each concurrent caller inside _get_item

vars == <<fs, args, phase, classes_names, classes, datapath, weights, shuffle,
          cache, idxs, num_batches, batch_idx, served, ret, callers>>

\* ------------------------------------------------------------ helpers
Min(a, b) == IF a < b THEN a ELSE b

Range(s) == {s[k] : k \in 1..Len(s)}

RECURSIVE GCD(_, _)
GCD(a, b) == IF b = 0 THEN a ELSE GCD(b, a % b)

\* exact rationals <<numerator, denominator>>, denominator > 0, reduced
Rat(n, d) == LET g == GCD(n, d) IN <<n \div g, d \div g>>
RatAdd(x, y) == Rat(x[1] * y[2] + y[1] * x[2], x[2] * y[2])
RatDiv(x, y) == Rat(x[1] * y[2], x[2] * y[1])

RECURSIVE RatSum(_)
RatSum(s) == IF s = <<>> THEN <<0, 1>> ELSE RatAdd(Head(s), RatSum(Tail(s)))

\* np.mean of a non-empty list
np_mean(s) == RatDiv(RatSum(s), <<Len(s), 1>>)

\* Python's seq[i] for an in-range index, negative indices counting from the end
PyAt(s, i) == IF i >= 0 THEN s[i + 1] ELSE s[Len(s) + i + 1]

\* Python's cols[:a] and cols[b:] for a, b >= 0 (slices clip to the length)
ColsTo(cols, a) == SubSeq(cols, 1, Min(a, Len(cols)))
ColsFrom(cols, b) == SubSeq(cols, Min(b, Len(cols)) + 1, Len(cols))

\* ------------------------------------------------------ class catalog
\* the sort key (x[0], int(x[1])) of a class name
KeyLess(x, y) == x[1] < y[1] \/ (x[1] = y[1] /\ x[2] < y[2])

RECURSIVE SortedNames(_)
SortedNames(S) ==
    IF S = {} THEN <<>>
    ELSE LET m == CHOOSE m \in S : \A y \in S \ {m} : KeyLess(m, y)
         IN <<m>> \o SortedNames(S \ {m})

\* ['.'.join(j) for j in sorted([i.split('.') for i in os.listdir(root)], key=...)]
ClassesNames(f) == SortedNames(f.listdir)

\* dict(zip(classes_names, range(len(classes_names))))
Classes(names) == [c \in Range(names) |-> (CHOOSE k \in 1..Len(names) : names[k] = c) - 1]

RECURSIVE FilesOf(_, _)
FilesOf(f, names) ==
    IF names = <<>> THEN <<>>
    ELSE [k \in 1..Len(f.glob[Head(names)]) |-> [cls |-> Head(names), file |-> k]]
         \o FilesOf(f, Tail(names))

\* sorted([(i.split('/')[2], i) for i in sorted(glob(...))], key=(letter, number)):
\* the files class by class in key order, each class's files in path order
Datapath(f) == FilesOf(f, SortedNames(f.listdir))

\* ------------------------------------------------------ class weights
RECURSIVE CounterKeys(_, _)
\* the keys of Counter(classes), in insertion (first appearance) order
CounterKeys(dp, seen) ==
    IF dp = <<>> THEN <<>>
    ELSE IF Head(dp).cls \in seen THEN CounterKeys(Tail(dp), seen)
    ELSE <<Head(dp).cls>> \o CounterKeys(Tail(dp), seen \cup {Head(dp).cls})

CounterOf(dp, c) == Cardinality({k \in 1..Len(dp) : dp[k].cls = c})

RECURSIVE SortedByLetter(_)
\* sorted(items, key=lambda x: (x[0][0], x[0].split('.')[2:])): for a name
\* "<letter>.<number>" the key is (letter, []), and Python's sort is stable
SortedByLetter(s) ==
    IF s = <<>> THEN <<>>
    ELSE LET m == CHOOSE m \in {x[1] : x \in Range(s)} :
                      \A x \in Range(s) : m <= x[1]
             IsMin(x) == x[1] = m
             NotMin(x) == x[1] # m
         IN SelectSeq(s, IsMin) \o SortedByLetter(SelectSeq(s, NotMin))

\* faulty variant: the inverse frequencies, not divided by their mean
MutWeightsNoMean(dp) ==
    LET keys == CounterKeys(dp, {})
        sorted_weights == SortedByLetter(keys)
    IN [k \in 1..Len(sorted_weights) |-> <<1, CounterOf(dp, sorted_weights[k])>>]

\* PFRDataset.get_classes_weights
get_classes_weights(dp) ==
    LET keys == CounterKeys(dp, {})
        inv == [k \in 1..Len(keys) |-> <<1, CounterOf(dp, keys[k])>>]
        mean == np_mean(inv)
        sorted_weights == SortedByLetter(keys)
    IN [k \in 1..Len(sorted_weights) |->
            RatDiv(<<1, CounterOf(dp, sorted_weights[k])>>, mean)]

\* ---------------------------------------------------- sample decoding
Raw(j) == [kind |-> "raw", col |-> j, k |-> 0]
OneHot(c, j) == [kind |-> "onehot", col |-> c.col, k |-> j]
NC == [kind |-> "n_c", col |-> 0, k |-> 0]

NoArray == [rows |-> <<>>, cols |-> <<>>, normalized |-> FALSE]

\* raw point count of the sample file behind datapath[index]
NPoints(index) == fs.glob[datapath[index + 1].cls][datapath[index + 1].file]

\* np.load(fn[1]): n rows, RawChannels columns
np_load(n) ==
    [rows |-> [r \in 1..n |-> r - 1],
     cols |-> [j \in 1..RawChannels |-> Raw(j - 1)],
     normalized |-> FALSE]

RECURSIVE MutOmitInclusiveEnd(_, _, _)
\* faulty variant: the end of a range is dropped too
MutOmitInclusiveEnd(cols, ranges, i) ==
    IF i < 0 THEN cols
    ELSE MutOmitInclusiveEnd(ColsTo(cols, PyAt(ranges, i - 1))
                                \o ColsFrom(cols, PyAt(ranges, i) + 1),
                             ranges, i - 2)

RECURSIVE OmitLoop(_, _, _)
\* for i in range(len(ranges) - 1, -1, -2):
\*     point_set = concatenate([point_set[:, :ranges[i - 1]], point_set[:, ranges[i]:]])
OmitLoop(cols, ranges, i) ==
    IF i < 0 THEN cols
    ELSE OmitLoop(ColsTo(cols, PyAt(ranges, i - 1)) \o ColsFrom(cols, PyAt(ranges, i)),
                  ranges, i - 2)

\* the miss branch of _get_item: the array that is cached and resampled
Decode(index) ==
    LET loaded == np_load(NPoints(index))
    IN IF args.normal_channel
       THEN [loaded EXCEPT !.cols = OmitLoop(loaded.cols, args.omit_parameters_ranges,
                                             Len(args.omit_parameters_ranges) - 1)]
       ELSE [loaded EXCEPT !.cols = ColsTo(loaded.cols, 3)]

\* ---------------------------------------------------------- resampling
Increasing(n, k) == {s \in [1..k -> 0..(n - 1)] : \A j \in 1..(k - 1) : s[j] < s[j + 1]}
NonDecreasing(n, k) == {s \in [1..k -> 0..(n - 1)] : \A j \in 1..(k - 1) : s[j] <= s[j + 1]}

\* faulty variant: always draws with replacement
MutChoiceWithReplacement(n, k) == NonDecreasing(n, k)

\* the values np.sort(np.random.choice(np.arange(n), k, replace=(n <= k))) can
\* take; the empty set when numpy raises ValueError (n = 0 < k)
SortedChoice(n, k) == IF n > k THEN Increasing(n, k) ELSE NonDecreasing(n, k)

\* the draws one _get_item(index) call can make (<<>> when it makes none)
Draws(index) ==
    IF index >= Len(datapath) \/ SortedChoice(NPoints(index), args.npoints) = {}
    THEN {<<>>}
    ELSE SortedChoice(NPoints(index), args.npoints)

\* faulty variant: keeps the array itself when the draw selects every row in order
MutTakeRowsView(w, ind) ==
    IF ind = [r \in 1..Len(w.arr.rows) |-> r - 1]
    THEN w
    ELSE [arr |-> [w.arr EXCEPT !.rows = [j \in 1..Len(ind) |-> w.arr.rows[ind[j] + 1]]],
          shared |-> FALSE]

\* point_set = point_set[ind, :]: indexing with an index array makes a new array.
\* w.arr is the array, w.shared tells whether it is the object held by the cache
TakeRows(w, ind) ==
    [arr |-> [w.arr EXCEPT !.rows = [j \in 1..Len(ind) |-> w.arr.rows[ind[j] + 1]]],
     shared |-> FALSE]

RECURSIVE CatLoop(_, _)
\* for cat_ind, cat_size in zip(indexes, sizes): one-hot expansion of column
\* cat_ind; the last field is the exception raised, "None" if none. The column is
\* taken to hold class ids below cat_size
CatLoop(w, k) ==
    IF k > Min(Len(args.to_categorical_indexes), Len(args.to_categorical_sizes))
    THEN [w |-> w, exc |-> "None"]
    ELSE LET cat_ind == args.to_categorical_indexes[k]
             cat_size == args.to_categorical_sizes[k]
             cols == w.arr.cols
         IN IF cat_ind >= Len(cols)
            THEN [w |-> w, exc |-> "IndexError"]
            ELSE CatLoop(
                   [arr |-> [w.arr EXCEPT !.cols =
                                ColsTo(cols, cat_ind)
                                \o [j \in 1..cat_size |-> OneHot(cols[cat_ind + 1], j - 1)]
                                \o ColsFrom(cols, cat_ind + 1)],
                    shared |-> FALSE],
                   k + 1)

\* if self.add_n_c_info: point_set = np.concatenate([point_set, self.n_c], axis=1)
AddNC(w) ==
    IF args.add_n_c_info
    THEN [arr |-> [w.arr EXCEPT !.cols = Append(w.arr.cols, NC)], shared |-> FALSE]
    ELSE w

\* faulty variant: <= in place of <
MutStoreOffByOne(c) == Cardinality(DOMAIN c) <= args.cache_size

\* if len(self.cache) < self.cache_size
HasRoom(c) == Cardinality(DOMAIN c) < args.cache_size

\* the miss branch: decode, and store if there is room
Miss(c, index, entry) ==
    [cache |-> IF HasRoom(c) THEN c @@ (index :> entry) ELSE c,
     hit |-> FALSE, entry |-> entry]

\* if index in self.cache: ... else: ...   gives [cache, hit, entry]
Lookup(c, index) ==
    IF index \in DOMAIN c
    THEN [cache |-> c, hit |-> TRUE, entry |-> c[index]]
    ELSE Miss(c, index, [point_set |-> Decode(index),
                         cls |-> classes[datapath[index + 1].cls]])

Raised(l, e) ==
    [cache |-> l.cache, exc |-> e, hit |-> l.hit, point_set |-> NoArray, cls |-> l.entry.cls]

\* if self.normalize: point_set[:, 0:3] = pc_normalize(point_set[:, 0:3])
\* writes into the array, and so into the cache if the array is the cached one;
\* if not self.normal_channel: point_set = point_set[:, 0:3]
Finish(l, index, w) ==
    [cache |-> IF args.normalize /\ w.shared
               THEN [l.cache EXCEPT ![index].point_set.normalized = TRUE]
               ELSE l.cache,
     exc |-> "None",
     hit |-> l.hit,
     point_set |-> [w.arr EXCEPT !.normalized = args.normalize \/ w.arr.normalized,
                                 !.cols = IF args.normal_channel THEN w.arr.cols
                                          ELSE ColsTo(w.arr.cols, 3)],
     cls |-> l.entry.cls]

Transform(l, index, cat) ==
    IF cat.exc # "None" THEN Raised(l, cat.exc) ELSE Finish(l, index, AddNC(cat.w))

\* faulty variant: an empty sample is replaced by npoints filler rows
MutResamplePadEmpty(l, index, ind) ==
    IF SortedChoice(Len(l.entry.point_set.rows), args.npoints) = {}
    THEN Finish(l, index,
                AddNC([arr |-> [l.entry.point_set EXCEPT
                                   !.rows = [j \in 1..args.npoints |-> 0]],
                       shared |-> FALSE]))
    ELSE Transform(l, index,
                   CatLoop(TakeRows([arr |-> l.entry.point_set,
                                     shared |-> index \in DOMAIN l.cache], ind), 1))

\* the part of _get_item after the lookup, with the random draw ind
Resample(l, index, ind) ==
    IF SortedChoice(Len(l.entry.point_set.rows), args.npoints) = {}
    THEN Raised(l, "ValueError")
    ELSE Transform(l, index,
                   CatLoop(TakeRows([arr |-> l.entry.point_set,
                                     shared |-> index \in DOMAIN l.cache], ind), 1))

\* PFRDataset._get_item(index) on cache c with the random draw ind:
\* [cache, exc, hit, point_set, cls]
get_item(c, index, ind) ==
    IF index >= Len(datapath)
    THEN [cache |-> c, exc |-> "IndexError", hit |-> FALSE, point_set |-> NoArray, cls |-> -1]
    ELSE Resample(Lookup(c, index), index, ind)

\* ------------------------------------------------------ batch iterator
Perms(n) == {p \in [1..n -> 0..(n - 1)] : \A i, j \in 1..n : i # j => p[i] # p[j]}

\* faulty variant: the shuffle draws each position independently
MutShuffleWithReplacement(n, shuffled) ==
    IF shuffled THEN [1..n -> 0..(n - 1)] ELSE {[k \in 1..n |-> k - 1]}

\* np.arange(0, n), shuffled by np.random.shuffle if self.shuffle
ResetIdxs(n, shuffled) == IF shuffled THEN Perms(n) ELSE {[k \in 1..n |-> k - 1]}

\* faulty variant: rounds down
MutFloorBatches(n, bs) == n \div bs

\* (len(self.datapath) + self.batch_size - 1) // self.batch_size
NumBatches(n, bs) == (n + bs - 1) \div bs

\* PFRDataset.has_next_batch
has_next_batch == batch_idx < num_batches

\* faulty variant: allocates batch_size rows for every batch
MutBatchShapeFull(bsize, channels) == <<args.batch_size, args.npoints, channels>>

\* the shape of np.zeros((bsize, self.npoints, self.num_channel()))
BatchShape(bsize, channels) == <<bsize, args.npoints, channels>>

\* batch_data[i] = ps: numpy broadcasts ps of shape (a, b) into a row of shape (K, C)
Broadcastable(ps, K, C) ==
    /\ Len(ps.rows) = K \/ Len(ps.rows) = 1
    /\ Len(ps.cols) = C \/ Len(ps.cols) = 1

Broadcast(ps, K, C) ==
    [points |-> K,
     cols |-> IF Len(ps.cols) = C THEN ps.cols ELSE [j \in 1..C |-> ps.cols[1]],
     normalized |-> ps.normalized]

\* next_batch keeps the number of rows of each sample, not which rows were drawn
\* (the draws are observed through GetItem), so one draw stands for all of them
AnyDraw(index) == CHOOSE d \in Draws(index) : TRUE

\* a row block of batch_data: its number of points and its columns
Block(ps) == [points |-> Len(ps.rows), cols |-> ps.cols, normalized |-> ps.normalized]

RECURSIVE FillBatch(_, _, _, _, _)
\* ps, cls = r; batch_data[i] = ps; batch_label[i] = cls;
\* batch_cls_weights[i] = self.weights[cls[0]]
FillStep(acc, i, bsize, start_idx, channels, index, r) ==
    IF r.exc # "None" THEN [acc EXCEPT !.cache = r.cache, !.exc = r.exc]
    ELSE IF ~Broadcastable(r.point_set, args.npoints, channels)
    THEN [acc EXCEPT !.cache = r.cache, !.exc = "ValueError"]
    ELSE IF r.cls >= Len(weights)
    THEN [acc EXCEPT !.cache = r.cache, !.exc = "IndexError"]
    ELSE FillBatch(
           [acc EXCEPT !.cache = r.cache,
                       !.data = Append(@, Broadcast(r.point_set, args.npoints, channels)),
                       !.label = Append(@, r.cls),
                       !.weight = Append(@, weights[r.cls + 1]),
                       !.idx = Append(@, index)],
           i + 1, bsize, start_idx, channels)

\* for i in range(bsize): ps, cls = self._get_item(self.idxs[i + start_idx]); ...
FillBatch(acc, i, bsize, start_idx, channels) ==
    IF i >= bsize \/ acc.exc # "None" THEN acc
    ELSE FillStep(acc, i, bsize, start_idx, channels, idxs[i + start_idx + 1],
                  get_item(acc.cache, idxs[i + start_idx + 1],
                           AnyDraw(idxs[i + start_idx + 1])))

\* PFRDataset._augment_batch_data: the provider transforms change values only
AugmentBatch(data) == data

NoBatch(c, e) ==
    [cache |-> c, exc |-> e, data |-> <<>>, label |-> <<>>, weight |-> <<>>,
     idx |-> <<>>, shape |-> <<>>]

\* np.zeros((bsize, self.npoints, self.num_channel())) with nc = self._get_item(0),
\* then the loop
Assemble(start_idx, bsize, nc) ==
    IF nc.exc # "None" THEN NoBatch(nc.cache, nc.exc)
    ELSE IF bsize < 0 THEN NoBatch(nc.cache, "ValueError")
    ELSE FillBatch([cache |-> nc.cache, exc |-> "None", data |-> <<>>, label |-> <<>>,
                    weight |-> <<>>, idx |-> <<>>,
                    shape |-> BatchShape(bsize, Len(nc.point_set.cols))],
                   0, bsize, start_idx, Len(nc.point_set.cols))

\* PFRDataset.next_batch: [cache, exc, shape, data, label, weight, idx]
next_batch ==
    Assemble(batch_idx * args.batch_size,
             Min((batch_idx + 1) * args.batch_size, Len(datapath))
                 - batch_idx * args.batch_size,
             get_item(cache, 0, AnyDraw(0)))

\* ------------------------------------------------- concurrent callers
\* the threads that may be inside _get_item of one dataset at the same time
Callers == {1, 2}

NoEntry == [point_set |-> NoArray, cls |-> -1]

\* a caller outside _get_item
Idle == [pc |-> "idle", index |-> -1, hit |-> FALSE, entry |-> NoEntry]

\* ------------------------------------------------------------ actions
\* train_bios2net.py: if len(OMIT_PARAMETERS_RANGES) % 2 != 0: raise Exception(...)
TrainScriptCheck ==
    /\ phase = "args"
    /\ IF Len(args.omit_parameters_ranges) % 2 # 0
       THEN phase' = "rejected" /\ ret' = [kind |-> "main", exc |-> "Exception"]
       ELSE phase' = "checked" /\ ret' = [kind |-> "main", exc |-> "None"]
    /\ UNCHANGED <<fs, args, classes_names, classes, datapath, weights, shuffle,
                   cache, idxs, num_batches, batch_idx, served,
                   callers>>

\* PFRDataset.__init__, called by the training script after its check or directly
Construct ==
    /\ phase \in {"args", "checked"}
    /\ phase' = "constructed"
    /\ classes_names' = ClassesNames(fs)
    /\ classes' = Classes(classes_names')
    /\ datapath' = Datapath(fs)
    /\ cache' = <<>>
    /\ weights' = get_classes_weights(datapath')
    /\ shuffle' = IF args.shuffle = "None" THEN args.split = "train"
                  ELSE args.shuffle = "True"
    /\ idxs' \in ResetIdxs(Len(datapath'), shuffle')
    /\ num_batches' = NumBatches(Len(datapath'), args.batch_size)
    /\ batch_idx' = 0
    /\ served' = <<>>
    /\ ret' = [kind |-> "init"]
    /\ UNCHANGED <<fs, args, callers>>

\* PFRDataset.reset
Reset ==
    /\ phase = "constructed"
    /\ idxs' \in ResetIdxs(Len(datapath), shuffle)
    /\ num_batches' = NumBatches(Len(datapath), args.batch_size)
    /\ batch_idx' = 0
    /\ served' = <<>>
    /\ ret' = [kind |-> "reset"]
    /\ UNCHANGED <<fs, args, phase, classes_names, classes, datapath, weights,
                   shuffle, cache,
                   callers>>

\* PFRDataset.__getitem__(index) / _get_item(index)
GetItem ==
    /\ phase = "constructed"
    /\ \E index \in 0..(IF Len(datapath) = 0 THEN 0 ELSE Len(datapath) - 1) :
         \E ind \in Draws(index) :
            \E r \in {get_item(cache, index, ind)} :
               /\ cache' = r.cache
               /\ ret' = [kind |-> "item", exc |-> r.exc, index |-> index, hit |-> r.hit,
                          point_set |-> r.point_set, cls |-> r.cls]
    /\ UNCHANGED <<fs, args, phase, classes_names, classes, datapath, weights,
                   shuffle, idxs, num_batches, batch_idx, served,
                   callers>>

\* PFRDataset.num_channel
NumChannel ==
    /\ phase = "constructed"
    /\ \E ind \in Draws(0) :
          \E r \in {get_item(cache, 0, ind)} :
             /\ cache' = r.cache
             /\ ret' = [kind |-> "num_channel", exc |-> r.exc,
                        value |-> Len(r.point_set.cols)]
    /\ UNCHANGED <<fs, args, phase, classes_names, classes, datapath, weights,
                   shuffle, idxs, num_batches, batch_idx, served,
                   callers>>

\* PFRDataset.next_batch(augment)
NextBatch ==
    /\ phase = "constructed"
    /\ batch_idx <= num_batches + 1
    /\ \E augment \in BOOLEAN :
          \E r \in {next_batch} :
             /\ cache' = r.cache
             /\ batch_idx' = IF r.exc = "None" THEN batch_idx + 1 ELSE batch_idx
             /\ served' = IF r.exc = "None" THEN Append(served, r.idx) ELSE served
             /\ ret' = IF r.exc = "None"
                       THEN [kind |-> "batch", exc |-> "None", augment |-> augment,
                             cursor |-> batch_idx, shape |-> r.shape,
                             data |-> IF augment THEN AugmentBatch(r.data) ELSE r.data,
                             label |-> r.label, weight |-> r.weight, idx |-> r.idx]
                       ELSE [kind |-> "batch", exc |-> r.exc, augment |-> augment,
                             cursor |-> batch_idx, shape |-> <<>>, data |-> <<>>,
                             label |-> <<>>, weight |-> <<>>, idx |-> <<>>]
    /\ UNCHANGED <<fs, args, phase, classes_names, classes, datapath, weights,
                   shuffle, idxs, num_batches,
                   callers>>

\* a caller enters _get_item(index)
Enter(t) ==
    /\ phase = "constructed"
    /\ callers[t].pc = "idle"
    /\ \E index \in 0..(Len(datapath) - 1) :
          callers' = [callers EXCEPT ![t] = [Idle EXCEPT !.pc = "test", !.index = index]]
    /\ UNCHANGED <<fs, args, phase, classes_names, classes, datapath, weights,
                   shuffle, cache, idxs, num_batches, batch_idx, served, ret>>

\* if index in self.cache: point_set, cls = self.cache[index]
\* else: the sample is loaded and decoded into the caller's locals
MembershipTest(t) ==
    /\ callers[t].pc = "test"
    /\ callers' = [callers EXCEPT ![t] =
                      IF callers[t].index \in DOMAIN cache
                      THEN [@ EXCEPT !.pc = "resample", !.hit = TRUE,
                                     !.entry = cache[callers[t].index]]
                      ELSE [@ EXCEPT !.pc = "check",
                                     !.entry = [point_set |-> Decode(callers[t].index),
                                                cls |-> classes[datapath[callers[t].index + 1].cls]]]]
    /\ UNCHANGED <<fs, args, phase, classes_names, classes, datapath, weights,
                   shuffle, cache, idxs, num_batches, batch_idx, served, ret>>

\* if len(self.cache) < self.cache_size:
SizeCheck(t) ==
    /\ callers[t].pc = "check"
    /\ callers' = [callers EXCEPT ![t].pc = IF HasRoom(cache) THEN "insert" ELSE "resample"]
    /\ UNCHANGED <<fs, args, phase, classes_names, classes, datapath, weights,
                   shuffle, cache, idxs, num_batches, batch_idx, served, ret>>

\* self.cache[index] = (point_set, cls)
Insert(t) ==
    /\ callers[t].pc = "insert"
    /\ cache' = (callers[t].index :> callers[t].entry) @@ cache
    /\ callers' = [callers EXCEPT ![t].pc = "resample"]
    /\ UNCHANGED <<fs, args, phase, classes_names, classes, datapath, weights,
                   shuffle, idxs, num_batches, batch_idx, served, ret>>

\* the rest of _get_item, on the caller's locals: resample, expand, return
Return(t) ==
    /\ callers[t].pc = "resample"
    /\ \E ind \in Draws(callers[t].index) :
          \E r \in {Resample([cache |-> cache, hit |-> callers[t].hit,
                               entry |-> callers[t].entry], callers[t].index, ind)} :
             /\ cache' = r.cache
             /\ ret' = [kind |-> "item", exc |-> r.exc, index |-> callers[t].index,
                        hit |-> r.hit, point_set |-> r.point_set, cls |-> r.cls]
    /\ callers' = [callers EXCEPT ![t] = Idle]
    /\ UNCHANGED <<fs, args, phase, classes_names, classes, datapath, weights,
                   shuffle, idxs, num_batches, batch_idx, served>>

Next == TrainScriptCheck \/ Construct \/ Reset \/ GetItem \/ NumChannel \/ NextBatch

\* ------------------------------------------------------ initial states
ClassNames == {<<1, 2>>, <<1, 10>>, <<2, 1>>}     \* "a.2", "a.10", "b.1"
BatchSizes == {1, 2}
CacheSizes == {0, 1, 2}

RECURSIVE SumOver(_, _)
SumOver(f, S) == IF S = {} THEN 0
                 ELSE LET c == CHOOSE c \in S : TRUE IN f[c] + SumOver(f, S \ {c})

\* roots whose classes are among names, with at most per files in a class and at
\* most total in all, every file holding one point
Roots(names, per, total) ==
    UNION {{[listdir |-> L, glob |-> [c \in L |-> [k \in 1..n[c] |-> 1]]] :
               n \in {m \in [L -> 0..per] : SumOver(m, L) <= total}} :
           L \in SUBSET names}

DefaultArgs ==
    [batch_size |-> 2, npoints |-> MaxK, split |-> "train", shuffle |-> "None",
     normalize |-> TRUE, normal_channel |-> TRUE, cache_size |-> 1,
     add_n_c_info |-> TRUE, omit_parameters_ranges |-> <<>>,
     to_categorical_indexes |-> <<>>, to_categorical_sizes |-> <<>>]

Unconstructed ==
    /\ phase = "args"
    /\ classes_names = <<>> /\ classes = <<>> /\ datapath = <<>> /\ weights = <<>>
    /\ shuffle = FALSE /\ cache = <<>> /\ idxs = <<>>
    /\ num_batches = 0 /\ batch_idx = 0 /\ served = <<>>
    /\ ret = [kind |-> "none"]
    /\ callers = [t \in Callers |-> Idle]

\* iteration scenarios: any split of up to MaxSamples one-point samples over two
\* classes, batch sizes 1 and 2, cache capacities 0..2, shuffled or not
Init ==
    /\ fs \in Roots({<<1, 2>>, <<1, 10>>}, MaxSamples, MaxSamples)
    /\ args \in {[DefaultArgs EXCEPT !.batch_size = b, !.cache_size = c, !.split = s] :
                    b \in BatchSizes, c \in CacheSizes, s \in {"train", "test"}}
    /\ Unconstructed

Spec == Init /\ [][Next]_vars

\* per-sample scenarios: one class with one or two sample files of 0..MaxK+1 points
\* (fewer than, exactly and more than npoints = MaxK), every combination of the
\* normalize / normal_channel / add_n_c_info switches and a few column layouts,
\* one of them with an odd-length omit_parameters_ranges
ItemSampleCounts == {1, 2}
ItemCacheSizes == {0, 1}

Layouts ==
    {[omit |-> <<>>, ci |-> <<>>, cs |-> <<>>],
     [omit |-> <<3, 6>>, ci |-> <<2>>, cs |-> <<4>>],
     [omit |-> <<0, 1, 4, 6>>, ci |-> <<1, 5>>, cs |-> <<2, 3>>],
     [omit |-> <<1, 2, 3>>, ci |-> <<>>, cs |-> <<>>],
     [omit |-> <<2, 9>>, ci |-> <<2>>, cs |-> <<3>>]}

\* every combination of the switches on the plain layout, and the training
\* script's switches (normalize off, normal_channel on) on the other layouts
ItemFeatures ==
    {[normalize |-> nz, normal_channel |-> nl, add_n_c_info |-> nc, layout |-> l] :
        nz \in BOOLEAN, nl \in BOOLEAN, nc \in BOOLEAN,
        l \in {[omit |-> <<>>, ci |-> <<>>, cs |-> <<>>]}}
    \cup
    {[normalize |-> FALSE, normal_channel |-> TRUE, add_n_c_info |-> nc, layout |-> l] :
        nc \in BOOLEAN, l \in Layouts}

InitItem ==
    /\ fs \in {[listdir |-> {<<1, 2>>}, glob |-> (<<1, 2>> :> g)] :
                  g \in UNION {[1..n -> 0..(MaxK + 1)] : n \in ItemSampleCounts}}
    /\ args \in {[DefaultArgs EXCEPT !.split = "test", !.shuffle = "False",
                                     !.batch_size = b, !.cache_size = c,
                                     !.normalize = f.normalize,
                                     !.normal_channel = f.normal_channel,
                                     !.add_n_c_info = f.add_n_c_info,
                                     !.omit_parameters_ranges = f.layout.omit,
                                     !.to_categorical_indexes = f.layout.ci,
                                     !.to_categorical_sizes = f.layout.cs] :
                    b \in BatchSizes, c \in ItemCacheSizes, f \in ItemFeatures}
    /\ Unconstructed

SpecItem == InitItem /\ [][Next]_vars

\* class-weight scenarios: up to three classes with 0..MaxCount one-point samples
InitWeights ==
    /\ fs \in Roots(ClassNames, MaxCount, 3 * MaxCount)
    /\ args \in {[DefaultArgs EXCEPT !.shuffle = "False", !.normalize = FALSE, !.split = s] :
                    s \in {"train", "test"}}
    /\ Unconstructed

SpecWeights == InitWeights /\ [][Next]_vars

\* two callers inside _get_item of one dataset, one step of one caller at a time
NextConcurrent ==
    \/ Construct
    \/ \E t \in Callers :
          Enter(t) \/ MembershipTest(t) \/ SizeCheck(t) \/ Insert(t) \/ Return(t)

\* concurrent scenarios: the roots and cache capacities of the iteration scenarios
InitConcurrent ==
    /\ fs \in Roots({<<1, 2>>, <<1, 10>>}, MaxSamples, MaxSamples)
    /\ args \in {[DefaultArgs EXCEPT !.cache_size = c, !.split = "test"] : c \in CacheSizes}
    /\ Unconstructed

SpecConcurrent == InitConcurrent /\ [][NextConcurrent]_vars

\* ------------------------------------------------------------- claims
\* the least m with m * b >= n
CeilDiv(n, b) == CHOOSE m \in 0..n : m * b >= n /\ \A j \in 0..(m - 1) : j * b < n

\* C1: the cache never holds more than cache_size entries; a miss that is not
\* stored (the cache was full) is still decoded, resampled and returned
C1_CacheCapacity ==
    /\ Cardinality(DOMAIN cache) <= args.cache_size
    /\ (ret.kind = "item" /\ ~ret.hit /\ ret.index < Len(datapath)
        /\ ret.index \notin DOMAIN cache)
       => /\ Cardinality(DOMAIN cache) = args.cache_size
          /\ NPoints(ret.index) >= 1 =>
                /\ ret.exc = "None"
                /\ Len(ret.point_set.rows) = args.npoints
                /\ \A j \in 1..args.npoints :
                      ret.point_set.rows[j] \in 0..(NPoints(ret.index) - 1)

C1_Witness ==
    /\ ret.kind = "item" /\ ~ret.hit /\ ret.exc = "None"
    /\ ret.index \notin DOMAIN cache
    /\ args.cache_size >= 1
    /\ Cardinality(DOMAIN cache) = args.cache_size

\* C2: an entry of the cache is never removed and never changes, and it is the
\* range-omitted decode of its sample, whatever is called afterwards
C2_CacheImmutable ==
    [][\A i \in DOMAIN cache :
          /\ i \in DOMAIN cache'
          /\ cache'[i] = cache[i]
          /\ cache'[i].point_set = Decode(i)
          /\ cache'[i].cls = classes[datapath[i + 1].cls]]_vars

C2_Witness ==
    /\ ret.kind = "item" /\ ret.hit /\ ret.exc = "None"
    /\ args.normalize /\ ret.point_set.normalized
    /\ ret.index \in DOMAIN cache
    /\ cache[ret.index].point_set = Decode(ret.index)
    /\ ~cache[ret.index].point_set.normalized

\* C3: has_next_batch() is true exactly while fewer than ceil(total / batch_size)
\* batches were returned since the last reset()
C3_EpochLength ==
    phase = "constructed" =>
        (has_next_batch <=> Len(served) < CeilDiv(Len(datapath), args.batch_size))

C3_Witness ==
    /\ phase = "constructed" /\ ~has_next_batch
    /\ Len(datapath) % args.batch_size # 0
    /\ Len(served) = CeilDiv(Len(datapath), args.batch_size)
    /\ Len(served) >= 2

\* C4: a next_batch call made when has_next_batch() is false raises and returns
\* no batch
C4_ExhaustedNextBatchFails ==
    (ret.kind = "batch" /\ ret.cursor >= num_batches) => ret.exc # "None"

\* the samples a next_batch call at cursor reads: sample 0 (num_channel) and the
\* samples of its slice of idxs
Touched(cursor) ==
    {0} \cup {idxs[k] : k \in {j \in 1..Len(idxs) :
                                  /\ j > cursor * args.batch_size
                                  /\ j <= (cursor + 1) * args.batch_size}}

\* C5: a batch returned while has_next_batch() was true has shape (B, K, C), K =
\* npoints, C = num_channel(), B = batch_size except for the last batch of the
\* epoch, which holds the remaining 1..batch_size samples
C5_BatchShape ==
    (ret.kind = "batch" /\ ret.exc = "None" /\ ret.cursor < num_batches) =>
        LET B == IF ret.cursor < num_batches - 1 THEN args.batch_size
                 ELSE Len(datapath) - (num_batches - 1) * args.batch_size
            C == Len(get_item(cache, 0, AnyDraw(0)).point_set.cols)
        IN /\ B \in 1..args.batch_size
           /\ ret.shape = <<B, args.npoints, C>>
           /\ Len(ret.data) = B
           /\ \A i \in 1..Len(ret.data) :
                 ret.data[i].points = args.npoints /\ Len(ret.data[i].cols) = C
           /\ Len(ret.label) = B
           /\ Len(ret.weight) = B

C5_Witness ==
    /\ ret.kind = "batch" /\ ret.exc = "None" /\ ret.cursor = num_batches - 1
    /\ Len(ret.idx) = 1 /\ args.batch_size = 2
    /\ NPoints(ret.idx[1]) > args.npoints
    /\ ret.shape[1] = 1

\* C6: resampling N >= 1 points to K gives K row indices in [0, N) in
\* non-decreasing order, pairwise distinct when N > K
C6_Resample ==
    (ret.kind = "item" /\ ret.exc = "None") =>
        LET N == NPoints(ret.index)
            K == args.npoints
            ind == ret.point_set.rows
        IN /\ N >= 1
           /\ Len(ind) = K
           /\ \A j \in 1..K : ind[j] \in 0..(N - 1)
           /\ \A j \in 1..(K - 1) : ind[j] <= ind[j + 1]
           /\ N > K => \A i, j \in 1..K : i # j => ind[i] # ind[j]

\* with N = K the draw is with replacement: a duplicate does occur
C6_Witness ==
    /\ ret.kind = "item" /\ ret.exc = "None"
    /\ NPoints(ret.index) = args.npoints
    /\ \E i, j \in 1..args.npoints : i # j /\ ret.point_set.rows[i] = ret.point_set.rows[j]

\* C7: a sample with no points makes _get_item raise, and makes every next_batch
\* that reads it raise without advancing the cursor
C7_EmptySampleFails ==
    /\ (ret.kind = "item" /\ ret.index < Len(datapath) /\ NPoints(ret.index) = 0)
       => ret.exc = "ValueError" /\ ret.point_set = NoArray
    /\ (ret.kind = "batch" /\ ret.cursor < num_batches
        /\ \E i \in Touched(ret.cursor) : NPoints(i) = 0)
       => ret.exc # "None" /\ ret.data = <<>> /\ batch_idx = ret.cursor

C7_Witness ==
    /\ ret.kind = "batch" /\ ret.exc = "ValueError"
    /\ NPoints(0) > 0
    /\ \E i \in Touched(ret.cursor) : NPoints(i) = 0

\* number of sample files of the class with id k - 1
CountOfClass(k) == Len(fs.glob[classes_names[k]])

\* C8: weights has one entry per catalog class, in class id order, each the
\* normalized inverse frequency of its class, and in a returned batch weight[i] is
\* weights[label[i]] with label[i] the class id of the i-th sample of the slice
C8_WeightsByClassId ==
    phase = "constructed" =>
        /\ Len(weights) = Len(classes_names)
        /\ \A k \in 1..Len(weights) :
              /\ CountOfClass(k) >= 1
              /\ weights[k] =
                    RatDiv(<<1, CountOfClass(k)>>,
                           np_mean([j \in 1..Len(weights) |-> <<1, CountOfClass(j)>>]))
        /\ (ret.kind = "batch" /\ ret.exc = "None") =>
              \A i \in 1..Len(ret.label) :
                 /\ ret.label[i] =
                       classes[datapath[idxs[ret.cursor * args.batch_size + i] + 1].cls]
                 /\ ret.weight[i] = weights[ret.label[i] + 1]

\* C9: with every class holding n_c >= 1 samples the weights have mean exactly 1
\* and w_a / w_b = n_b / n_a
C9_WeightsMeanOne ==
    (phase = "constructed" /\ fs.listdir # {}
     /\ \A c \in fs.listdir : Len(fs.glob[c]) >= 1) =>
        /\ Len(weights) = Cardinality(fs.listdir)
        /\ RatSum(weights) = <<Len(weights), 1>>
        /\ \A a, b \in 1..Len(weights) :
              weights[a][1] * weights[b][2] * CountOfClass(a)
                 = weights[b][1] * weights[a][2] * CountOfClass(b)

\* counts 3 and 1 give weights in ratio 1 : 3
C9_Witness ==
    /\ phase = "constructed"
    /\ \A c \in fs.listdir : Len(fs.glob[c]) >= 1
    /\ \E a, b \in 1..Len(weights) :
          /\ CountOfClass(a) = 3 /\ CountOfClass(b) = 1
          /\ weights[b] = RatDiv(<<3 * weights[a][1], weights[a][2]>>, <<1, 1>>)

\* C10: a dataset is never constructed, and no sample decoded, with an
\* odd-length omit_parameters_ranges
C10_OddOmitRejected ==
    Len(args.omit_parameters_ranges) % 2 = 1 => phase # "constructed"

\* C11: no dataset is constructed over a root without class directories, or over
\* a root with a class directory that holds no sample file of the split
C11_EmptyCatalogRejected ==
    phase = "constructed" =>
        /\ classes_names # <<>>
        /\ \A k \in 1..Len(classes_names) : CountOfClass(k) >= 1

\* ranges is a list of [start, end) pairs within the raw columns, ascending and
\* not overlapping
AscendingPairs(ranges) ==
    /\ Len(ranges) % 2 = 0
    /\ \A k \in 1..Len(ranges) : ranges[k] \in 0..RawChannels
    /\ \A k \in 1..(Len(ranges) - 1) : ranges[k] <= ranges[k + 1]

RECURSIVE OmittedWidth(_, _)
\* sum(end - start) over the pairs from the p-th on
OmittedWidth(ranges, p) ==
    IF 2 * p > Len(ranges) THEN 0
    ELSE ranges[2 * p] - ranges[2 * p - 1] + OmittedWidth(ranges, p + 1)

\* the raw columns outside every pair, in their original order
Surviving(ranges) ==
    LET Kept(c) == ~\E p \in 1..(Len(ranges) \div 2) :
                       ranges[2 * p - 1] <= c.col /\ c.col < ranges[2 * p]
    IN SelectSeq([j \in 1..RawChannels |-> Raw(j - 1)], Kept)

RECURSIVE ExpansionGain(_)
\* sum(size_i - 1) over the (index, size) pairs from the k-th on
ExpansionGain(k) ==
    IF k > Min(Len(args.to_categorical_indexes), Len(args.to_categorical_sizes)) THEN 0
    ELSE args.to_categorical_sizes[k] - 1 + ExpansionGain(k + 1)

\* raw - omitted + sum(size_i - 1) + (1 if add_n_c_info)
SampleWidth ==
    RawChannels - OmittedWidth(args.omit_parameters_ranges, 1) + ExpansionGain(1)
        + (IF args.add_n_c_info THEN 1 ELSE 0)

\* C12: with normal_channel on and ascending, non-overlapping omission pairs, a
\* decoded (cached) sample holds the raw columns outside the pairs in their
\* original order, raw - sum(end - start) of them, and a returned sample and
\* num_channel() have width raw - omitted + sum(size_i - 1) + (1 if add_n_c_info)
C12_ChannelWidth ==
    (phase = "constructed" /\ args.normal_channel
     /\ AscendingPairs(args.omit_parameters_ranges)) =>
        /\ \A i \in DOMAIN cache :
              /\ cache[i].point_set.cols = Surviving(args.omit_parameters_ranges)
              /\ Len(cache[i].point_set.cols)
                    = RawChannels - OmittedWidth(args.omit_parameters_ranges, 1)
        /\ (ret.kind = "item" /\ ret.exc = "None") =>
              /\ Decode(ret.index).cols = Surviving(args.omit_parameters_ranges)
              /\ Len(ret.point_set.cols) = SampleWidth
              /\ args.add_n_c_info <=> ret.point_set.cols[Len(ret.point_set.cols)] = NC
        /\ (ret.kind = "num_channel" /\ ret.exc = "None") => ret.value = SampleWidth

\* ranges [3, 6] leave raw - 3 decoded columns; categorical index 2 of size 4
\* brings the width before the positional channel back to raw
C12_Witness ==
    /\ ret.kind = "item" /\ ret.exc = "None"
    /\ args.omit_parameters_ranges = <<3, 6>>
    /\ args.to_categorical_indexes = <<2>> /\ args.to_categorical_sizes = <<4>>
    /\ ~args.add_n_c_info
    /\ ret.index \in DOMAIN cache
    /\ Len(cache[ret.index].point_set.cols) = RawChannels - 3
    /\ Len(ret.point_set.cols) = RawChannels

\* C13: with two callers interleaving inside _get_item the cache still never
\* holds more than cache_size entries
C13_ConcurrentCacheCapacity ==
    Cardinality(DOMAIN cache) <= args.cache_size

RECURSIVE Flatten(_)
\* the batches of an epoch laid end to end
Flatten(ss) == IF ss = <<>> THEN <<>> ELSE Head(ss) \o Flatten(Tail(ss))

\* p lists every index of [0, n) exactly once
IsPermutation(p, n) ==
    /\ Len(p) = n
    /\ \A v \in 0..(n - 1) : Cardinality({k \in 1..n : p[k] = v}) = 1

\* C14: idxs is a permutation of [0, total), the identity when shuffle is off; the
\* indices of the batches returned since reset(), in batch order, are the leading
\* part of idxs and are all of idxs once has_next_batch() is false; a next_batch
\* call leaves idxs alone and moves the cursor by at most one
C14_EpochCoverage ==
    /\ [](phase = "constructed" =>
            /\ IsPermutation(idxs, Len(datapath))
            /\ ~shuffle => idxs = [k \in 1..Len(datapath) |-> k - 1]
            /\ Flatten(served)
                  = SubSeq(idxs, 1, Min(Len(served) * args.batch_size, Len(datapath)))
            /\ ~has_next_batch => Flatten(served) = idxs)
    /\ [][ret'.kind = "batch" =>
             /\ idxs' = idxs
             /\ batch_idx' = IF ret'.exc = "None" THEN batch_idx + 1 ELSE batch_idx]_vars

\* a shuffled epoch of MaxSamples samples served in two batches
C14_Witness ==
    /\ phase = "constructed" /\ ~has_next_batch /\ shuffle
    /\ Len(datapath) = MaxSamples /\ Len(served) = 2
    /\ idxs # [k \in 1..Len(datapath) |-> k - 1]
    /\ Flatten(served) = idxs

====
